---- MODULE Spec2Model ----
(***************************************************************************)
(* Model of app2.py, the Customer Feedback System: the CSV store           *)
(* (load_data / to_csv), the entry form, the date filter and the report    *)
(* generator (create_reason_chart, create_report_pdf).                     *)
(*                                                                         *)
(* Text is a sequence of one-character strings; the enumerated product and *)
(* reason values are kept as one opaque token each (they hold no digit and *)
(* no "."), so parsing treats them as letters.                             *)
(* Lengths are in tenths of a point: reportlab's inch is 72.0 pt, and      *)
(* every length of the program (0.20, 0.25, 1.0, 1.5 ... inch) is a whole  *)
(* number of tenths.  The float cursor of the program differs from the     *)
(* exact value by less than 1e-12 pt and lies on the same side of the      *)
(* 1.5 inch threshold as the exact value at every comparison (at the one   *)
(* exact tie, 108 pt, the float is 108.0000000000001, also not below).     *)
(***************************************************************************)
EXTENDS Integers, Sequences, FiniteSets, TLC

----------------------------------------------------------------------------
(* Bounds *)
MaxRows == 2           \* rows the persisted file may hold
MaxEntries == 26       \* rows of a report_df handed to create_report_pdf

----------------------------------------------------------------------------
(* Text and numbers *)

Digits == <<"0", "1", "2", "3", "4", "5", "6", "7", "8", "9">>

IsDigit(c) == \E i \in 1..10 : Digits[i] = c

DigitVal(c) == (CHOOSE i \in 1..10 : Digits[i] = c) - 1

\* int(text) for a text of digits
RECURSIVE DigitsToNat(_)
DigitsToNat(t) ==
    IF Len(t) = 0 THEN 0
    ELSE 10 * DigitsToNat(SubSeq(t, 1, Len(t) - 1)) + DigitVal(t[Len(t)])

\* str(n) for n >= 0
RECURSIVE NatToDigits(_)
NatToDigits(n) ==
    IF n < 10 THEN <<Digits[n + 1]>>
    ELSE Append(NatToDigits(n \div 10), Digits[(n % 10) + 1])

\* n written with at least k digits, zero padded on the left ("%02d")
RECURSIVE ZeroPad(_, _)
ZeroPad(t, k) == IF Len(t) >= k THEN t ELSE ZeroPad(<<"0">> \o t, k)

AllDigits(t) == Len(t) > 0 /\ \A i \in 1..Len(t) : IsDigit(t[i])

DotPos(t) == IF \E i \in 1..Len(t) : t[i] = "."
             THEN CHOOSE i \in 1..Len(t) : t[i] = "." /\ \A j \in 1..(i - 1) : t[j] # "."
             ELSE 0

\* Numbers with a fraction are held in thousandths (5.0 is 5000): the form
\* formats weights with three decimals, so no text of the model has more.
RECURSIVE StripZeros(_)
StripZeros(t) ==
    IF Len(t) > 1 /\ t[Len(t)] = "0" THEN StripZeros(SubSeq(t, 1, Len(t) - 1)) ELSE t

\* f"{form_weight:.3f}"
FormatFixed3(m) == NatToDigits(m \div 1000) \o <<".">> \o ZeroPad(NatToDigits(m % 1000), 3)

\* repr of a float: shortest form, at least one decimal (5.0, 1.25)
FloatRepr(m) ==
    NatToDigits(m \div 1000) \o <<".">> \o StripZeros(ZeroPad(NatToDigits(m % 1000), 3))

IsIntText(t) == AllDigits(t)

IsFloatText(t) ==
    LET p == DotPos(t) IN
    /\ p > 1
    /\ AllDigits(SubSeq(t, 1, p - 1))
    /\ Len(t) - p \in 1..3
    /\ AllDigits(SubSeq(t, p + 1, Len(t)))

RECURSIVE PadRight(_, _)
PadRight(t, k) == IF Len(t) >= k THEN t ELSE PadRight(Append(t, "0"), k)

ParseFloat(t) ==
    IF IsIntText(t) THEN 1000 * DigitsToNat(t)
    ELSE LET p == DotPos(t) IN
         1000 * DigitsToNat(SubSeq(t, 1, p - 1))
           + DigitsToNat(PadRight(SubSeq(t, p + 1, Len(t)), 3))

----------------------------------------------------------------------------
(* Cells, rows and DataFrames *)

DATA_FILE == "customer_data.csv"

COLUMNS == <<"Date", "Customer Name", "Contact Number", "Product",
             "Weight (grams)", "Reason for Feedback">>

Range(f) == {f[i] : i \in 1..Len(f)}

\* A cell of a DataFrame: a str, an int, a float (n in thousandths), NaN,
\* a Timestamp (n = yyyymmdd) or NaT.
StrCell(t) == [t |-> "str", s |-> t, n |-> 0]
IntCell(k) == [t |-> "int", s |-> <<>>, n |-> k]
FloatCell(m) == [t |-> "float", s |-> <<>>, n |-> m]
NaN == [t |-> "nan", s |-> <<>>, n |-> 0]
Timestamp(k) == [t |-> "datetime", s |-> <<>>, n |-> k]
NaT == [t |-> "nat", s |-> <<>>, n |-> 0]

\* The persisted file: absent, or a header line and one text line per row.
NoFile == [exists |-> FALSE, header |-> <<>>, lines |-> <<>>]

\* pd.DataFrame(columns=columns)
EmptyFrame(columns) == [columns |-> columns, index |-> <<>>, rows |-> <<>>]

\* df.empty
IsEmpty(df) == Len(df.rows) = 0 \/ Len(df.columns) = 0

\* read_csv's default na_values that the model's alphabet can spell
NAValues == {<<>>, <<"N", "A">>, <<"n", "a", "n">>}

IsNA(t) == t \in NAValues

\* read_csv's type inference for one column of texts: int64 when every
\* value is an integer, float64 when every value is a number or missing,
\* object (the texts themselves, NaN for the missing ones) otherwise.
\* (Signs, exponents and the bool texts are outside the model's alphabet.)
InferColumn(texts) ==
    LET present == {i \in 1..Len(texts) : ~IsNA(texts[i])}
        hasNA == \E i \in 1..Len(texts) : IsNA(texts[i])
    IN  IF \A i \in present : IsIntText(texts[i])
        THEN IF hasNA
             THEN [i \in 1..Len(texts) |->
                     IF IsNA(texts[i]) THEN NaN ELSE FloatCell(1000 * DigitsToNat(texts[i]))]
             ELSE [i \in 1..Len(texts) |-> IntCell(DigitsToNat(texts[i]))]
        ELSE IF \A i \in present : IsIntText(texts[i]) \/ IsFloatText(texts[i])
        THEN [i \in 1..Len(texts) |->
                 IF IsNA(texts[i]) THEN NaN ELSE FloatCell(ParseFloat(texts[i]))]
        ELSE [i \in 1..Len(texts) |->
                 IF IsNA(texts[i]) THEN NaN ELSE StrCell(texts[i])]

\* a column read with dtype str: no inference, missing values are still NaN
StrColumn(texts) ==
    [i \in 1..Len(texts) |-> IF IsNA(texts[i]) THEN NaN ELSE StrCell(texts[i])]

\* pd.read_csv(DATA_FILE, dtype=dtype)
read_csv(f, dtype) ==
    LET n == Len(f.lines)
        col(c) == LET texts == [i \in 1..n |-> f.lines[i][c]]
                  IN  IF c \in dtype THEN StrColumn(texts) ELSE InferColumn(texts)
    IN  [columns |-> f.header,
         index |-> [i \in 1..n |-> i - 1],
         rows |-> [i \in 1..n |-> [c \in Range(f.header) |-> col(c)[i]]]]

\* load_data()
load_data(f) ==
    IF f.exists THEN read_csv(f, {"Date"}) ELSE EmptyFrame(COLUMNS)

\* the text to_csv writes for a cell (na_rep is '')
CsvText(cell) ==
    CASE cell.t = "str" -> cell.s
      [] cell.t = "int" -> NatToDigits(cell.n)
      [] cell.t = "float" -> FloatRepr(cell.n)
      [] OTHER -> <<>>

\* df.to_csv(DATA_FILE, index=False)
to_csv(df) ==
    [exists |-> TRUE,
     header |-> df.columns,
     lines |-> [i \in 1..Len(df.rows) |->
                  [c \in Range(df.columns) |-> CsvText(df.rows[i][c])]]]

\* pd.concat([df, other], ignore_index=True)
concat(df, other) ==
    LET extra == SelectSeq(other.columns, LAMBDA c : c \notin Range(df.columns))
        columns == df.columns \o extra
        widen(row) == [c \in Range(columns) |-> IF c \in DOMAIN row THEN row[c] ELSE NaN]
        rows == [i \in 1..Len(df.rows) |-> widen(df.rows[i])]
                  \o [i \in 1..Len(other.rows) |-> widen(other.rows[i])]
    IN  [columns |-> columns,
         index |-> [i \in 1..Len(rows) |-> i - 1],
         rows |-> rows]

----------------------------------------------------------------------------
(* Dates *)

Date(y, m, d) == [year |-> y, month |-> m, day |-> d]

\* form_date.strftime("%Y-%m-%d")
strftime(d) ==
    ZeroPad(NatToDigits(d.year), 4) \o <<"-">> \o ZeroPad(NatToDigits(d.month), 2)
      \o <<"-">> \o ZeroPad(NatToDigits(d.day), 2)

IsDateText(t) ==
    /\ Len(t) = 10
    /\ t[5] = "-" /\ t[8] = "-"
    /\ AllDigits(SubSeq(t, 1, 4)) /\ AllDigits(SubSeq(t, 6, 7)) /\ AllDigits(SubSeq(t, 9, 10))

\* pd.to_datetime on one cell of the Date column
to_datetime(cell) ==
    IF cell.t = "str" /\ IsDateText(cell.s)
    THEN Timestamp(10000 * DigitsToNat(SubSeq(cell.s, 1, 4))
                     + 100 * DigitsToNat(SubSeq(cell.s, 6, 7))
                     + DigitsToNat(SubSeq(cell.s, 9, 10)))
    ELSE NaT

\* df['Date'] = pd.to_datetime(df['Date'])
ParseDates(df) ==
    [df EXCEPT !.rows = [i \in 1..Len(df.rows) |->
                           [df.rows[i] EXCEPT !["Date"] = to_datetime(df.rows[i]["Date"])]]]

\* .dt.date of a Timestamp
DtDate(cell) == Date(cell.n \div 10000, (cell.n \div 100) % 100, cell.n % 100)

\* a <= b for two dates
DateLE(a, b) ==
    \/ a.year < b.year
    \/ a.year = b.year /\ a.month < b.month
    \/ a.year = b.year /\ a.month = b.month /\ a.day <= b.day

\* the mask with an exclusive end
InRangeOpenEnd(cell, start_date, end_date) ==
    /\ cell.t = "datetime"
    /\ DateLE(start_date, DtDate(cell))
    /\ DateLE(DtDate(cell), end_date) /\ DtDate(cell) # end_date

\* mask = (df['Date'].dt.date >= start_date) & (df['Date'].dt.date <= end_date)
InRange(cell, start_date, end_date) ==
    /\ cell.t = "datetime"
    /\ DateLE(start_date, DtDate(cell))
    /\ DateLE(DtDate(cell), end_date)

\* filtered_df = df.loc[mask]: the selected rows under their own labels
Filter(df, start_date, end_date) ==
    LET keep == SelectSeq([i \in 1..Len(df.rows) |-> i],
                          LAMBDA i : InRange(df.rows[i]["Date"], start_date, end_date))
    IN  [columns |-> df.columns,
         index |-> [k \in 1..Len(keep) |-> df.index[keep[k]]],
         rows |-> [k \in 1..Len(keep) |-> df.rows[keep[k]]]]

\* str() of a cell inside an f-string
PyStr(cell) ==
    CASE cell.t = "str" -> cell.s
      [] cell.t = "int" -> NatToDigits(cell.n)
      [] cell.t = "float" -> FloatRepr(cell.n)
      [] cell.t = "nan" -> <<"n", "a", "n">>
      [] cell.t = "datetime" -> strftime(DtDate(cell)) \o <<" ", "00:00:00">>
      [] OTHER -> <<"N", "a", "T">>

----------------------------------------------------------------------------
(* Chart renderer *)

NoImage == [kind |-> "none", bars |-> {}]

\* df['Reason for Feedback'].value_counts(): one bar per reason, its length
\* the number of rows with that reason (NaN is not counted)
value_counts(df, c) ==
    LET present == {i \in 1..Len(df.rows) : df.rows[i][c].t # "nan"}
    IN  {<<PyStr(df.rows[i][c]),
           Cardinality({j \in present : df.rows[j][c] = df.rows[i][c]})>> : i \in present}

create_reason_chart(df) ==
    IF IsEmpty(df) \/ "Reason for Feedback" \notin Range(df.columns)
    THEN NoImage
    ELSE [kind |-> "png", bars |-> value_counts(df, "Reason for Feedback")]

----------------------------------------------------------------------------
(* Report builder *)

inch == 720                    \* reportlab.lib.units.inch, 72 pt
width == (85 * inch) \div 10   \* letter
height == 11 * inch

line_height == (20 * inch) \div 100

\* Each drawing call is logged: the page it lands on, what it is, the label
\* of the row it belongs to (-1 for none), its vertical position, its text.
Op(page, part, row, y, text) ==
    [page |-> page, part |-> part, row |-> row, y |-> y, text |-> text]

\* lines 47-65: title, optional chart, section header
BeginReport(image) ==
    LET title == Op(0, "title", -1, height - (75 * inch) \div 100,
                    <<"Customer Feedback Report">>)
        y0 == height - inch
        y1 == IF image # NoImage THEN y0 - 4 * inch ELSE y0
        chart == IF image # NoImage
                 THEN <<Op(0, "chart", -1, y0 - (35 * inch) \div 10, <<>>)>>
                 ELSE <<>>
    IN  [page |-> 0,
         y |-> y1 - (25 * inch) \div 100,
         ops |-> <<title>> \o chart \o <<Op(0, "header", -1, y1, <<"Detailed Entries:">>)>>,
         raised |-> FALSE]

\* the threshold at 1.0 inch
NeedsPageBreakLate(y) == y < inch

\* line 68
NeedsPageBreak(y) == y < (15 * inch) \div 10

\* the new page left without its header
ContinuedHeaderNone(page, y) == <<>>

\* line 72
ContinuedHeader(page, y) == <<Op(page, "continued", -1, y, <<"Detailed Entries (Continued)">>)>>

\* lines 69-73
PageBreak(L) ==
    [L EXCEPT !.page = L.page + 1,
              !.y = (height - inch) - (25 * inch) \div 100,
              !.ops = L.ops \o ContinuedHeader(L.page + 1, height - inch)]

Line1Text(row) ==
    <<"Date: ">> \o PyStr(row["Date"]) \o <<" | Name: ">> \o PyStr(row["Customer Name"])
      \o <<" | Contact: ">>
      \o (IF "Contact Number" \in DOMAIN row THEN PyStr(row["Contact Number"])
          ELSE <<"N/A">>)

Line2Text(row) ==
    <<"Product: ">> \o PyStr(row["Product"]) \o <<" | Weight: ">>
      \o PyStr(row["Weight (grams)"]) \o <<"g | Reason: ">>
      \o PyStr(row["Reason for Feedback"])

\* the block with the page-break test repeated between its two lines
DrawBlockSplit(L, label, row) ==
    LET first == Op(L.page, "line1", label, L.y, Line1Text(row))
        M == [L EXCEPT !.y = L.y - line_height, !.ops = Append(L.ops, first)]
        N == IF NeedsPageBreak(M.y) THEN PageBreak(M) ELSE M
        y2 == N.y - line_height \div 2
    IN  IF ~(Range(COLUMNS) \subseteq DOMAIN row)
        THEN [M EXCEPT !.raised = TRUE]
        ELSE [N EXCEPT !.y = y2 - (25 * inch) \div 100,
                       !.ops = N.ops \o <<Op(N.page, "line2", label, N.y, Line2Text(row)),
                                          Op(N.page, "divider", label, y2, <<>>)>>]

\* lines 75-84: the two text lines, the divider and the spacing of one
\* entry; a row without a column the f-string indexes raises KeyError at
\* that line, after what was drawn before it
DrawBlock(L, label, row) ==
    IF ~({"Date", "Customer Name"} \subseteq DOMAIN row)
    THEN [L EXCEPT !.raised = TRUE]
    ELSE LET y1 == L.y - line_height
             y2 == y1 - line_height \div 2
             first == Op(L.page, "line1", label, L.y, Line1Text(row))
         IN  IF ~({"Product", "Weight (grams)", "Reason for Feedback"} \subseteq DOMAIN row)
             THEN [L EXCEPT !.y = y1, !.ops = Append(L.ops, first), !.raised = TRUE]
             ELSE [L EXCEPT !.y = y2 - (25 * inch) \div 100,
                            !.ops = L.ops \o <<first,
                                               Op(L.page, "line2", label, y1, Line2Text(row)),
                                               Op(L.page, "divider", label, y2, <<>>)>>]

\* the iteration that starts a page loses its entry
EntryStepSkip(L, label, row) ==
    IF NeedsPageBreak(L.y) THEN PageBreak(L) ELSE DrawBlock(L, label, row)

\* lines 68-84: one iteration of the loop over report_df.iterrows()
EntryStep(L, label, row) ==
    DrawBlock(IF NeedsPageBreak(L.y) THEN PageBreak(L) ELSE L, label, row)

RECURSIVE Entries(_, _, _)
Entries(L, report_df, i) ==
    IF i > Len(report_df.rows) \/ L.raised THEN L
    ELSE Entries(EntryStep(L, report_df.index[i], report_df.rows[i]), report_df, i + 1)

\* create_report_pdf(report_df, chart_image): the finished canvas
create_report_pdf(report_df, image) == Entries(BeginReport(image), report_df, 1)

----------------------------------------------------------------------------
(* State *)

VARIABLES
    data_file,      \* content of customer_data.csv
    pc,             \* per session: "idle", or "loaded" inside a script run
    df,             \* per session: the module-level df of the running script
    msgs,           \* per session: the messages the last run displayed
    calls,          \* per session: which of the two generators the last run invoked
    filtered_df,    \* per session: the filtered_df of the last run
    download,       \* per session: the download button of the last run
    pressed,        \* per session: the button of the last run, the required form
                    \*   widgets it found empty, the report widgets it read
    loaded_from,    \* per session: the file content the last run loaded
    entry,          \* per session: the new_entry line the last run saved
    report_df,      \* create_report_pdf called on its own: its argument
    chart_image,    \*   its chart_image argument
    canvas,         \*   the canvas c with y_position
    idx,            \*   position of the loop over report_df.iterrows()
    rpc             \*   "chart", "begin", "loop", "done" or "error"

appvars == <<data_file, pc, df, msgs, calls, filtered_df, download, pressed, loaded_from,
            entry>>
repvars == <<report_df, chart_image, canvas, idx, rpc>>
vars == <<data_file, pc, df, msgs, calls, filtered_df, download, pressed, loaded_from, entry,
          report_df, chart_image, canvas, idx, rpc>>

Sessions == {1, 2}

NoFrame == EmptyFrame(<<>>)
NoCanvas == [page |-> 0, y |-> 0, ops |-> <<>>, raised |-> FALSE]
NoDownload == [offered |-> FALSE, data |-> NoCanvas, file_name |-> <<>>]
NoEntry == <<>>
\* no button pressed, and the shape of what a pressed button records
NotPressed == [button |-> "none", blank |-> {},
               start_date |-> [year |-> 0, month |-> 0, day |-> 0],
               end_date |-> [year |-> 0, month |-> 0, day |-> 0], include_chart |-> FALSE]

Msg(level, text) == [level |-> level, text |-> text]

----------------------------------------------------------------------------
(* Entry form *)

\* what the widgets of entry_form can hold
FormDates == {Date(2024, 1, 31), Date(2024, 2, 1)}
FormNames == {<<>>, <<"B", "o">>}
FormContacts == {<<>>, <<"0", "7">>, <<"x">>, <<"N", "A">>}
FormProducts == {<<>>, <<"Ring">>}
FormWeights == {5000, 1250}
FormReasons == {<<>>, <<"VA Problem">>}

Forms ==
    [form_date : FormDates, form_name : FormNames, form_contact : FormContacts,
     form_product : FormProducts, form_weight : FormWeights, form_reason : FormReasons]

\* the narrower widget contents used with two sessions
RaceForms ==
    {f \in Forms : f.form_date = Date(2024, 1, 31) /\ f.form_contact = <<"x">>
                   /\ f.form_product # <<>> /\ f.form_reason # <<>>}

\* the required widgets of f that are empty or unselected
BlankWidgets(f) ==
    {w \in {"Name", "Product", "Reason"} :
        \/ w = "Name" /\ f.form_name = <<>>
        \/ w = "Product" /\ f.form_product = <<>>
        \/ w = "Reason" /\ f.form_reason = <<>>}

\* the check without the name
IncompleteNoName(f) == f.form_product = <<>> \/ f.form_reason = <<>>

\* line 109: not form_name or not form_product or not form_reason
Incomplete(f) == f.form_name = <<>> \/ f.form_product = <<>> \/ f.form_reason = <<>>

\* line 112: the one-row frame of str values
new_entry(f) ==
    [columns |-> COLUMNS,
     index |-> <<0>>,
     rows |-> <<[c \in Range(COLUMNS) |->
                   CASE c = "Date" -> StrCell(strftime(f.form_date))
                     [] c = "Customer Name" -> StrCell(f.form_name)
                     [] c = "Contact Number" -> StrCell(f.form_contact)
                     [] c = "Product" -> StrCell(f.form_product)
                     [] c = "Weight (grams)" -> StrCell(FormatFixed3(f.form_weight))
                     [] OTHER -> StrCell(f.form_reason)]>>]

\* the append done on a fresh load of the file instead of the run's df
AppendedFresh(s, f) == concat(load_data(data_file), new_entry(f))

\* line 113: the frame the handler writes
Appended(s, f) == concat(df[s], new_entry(f))

FillWarning == Msg("warning", <<"Please fill in Name, Product, and Reason.">>)
SavedMsg(f) == Msg("success", <<"Entry for '">> \o f.form_name \o <<"' saved successfully!">>)
NoDataInfo == Msg("info", <<"No data has been saved yet.">>)
NoDisplayInfo == Msg("info", <<"No data to display.">>)
RangeError == Msg("error", <<"Error: Start Date cannot be after End Date.">>)
NoEntriesWarning == Msg("warning", <<"No entries found for the selected date range.">>)
GeneratedMsg(n) ==
    Msg("success", <<"PDF report generated with ">> \o NatToDigits(n) \o <<" entries!">>)

\* lines 120-121: section 2 of a run that pressed no button there
Section2Info(frame) == IF IsEmpty(frame) THEN {NoDataInfo} ELSE {}

\* line 94: a script run starts (any interaction reruns the script) and
\* loads the file; what the previous run displayed is gone
Rerun(s) ==
    /\ pc[s] = "idle"
    /\ pc' = [pc EXCEPT ![s] = "loaded"]
    /\ df' = [df EXCEPT ![s] = load_data(data_file)]
    /\ loaded_from' = [loaded_from EXCEPT ![s] = data_file]
    /\ msgs' = [msgs EXCEPT ![s] = {}]
    /\ calls' = [calls EXCEPT ![s] = {}]
    /\ filtered_df' = [filtered_df EXCEPT ![s] = NoFrame]
    /\ download' = [download EXCEPT ![s] = NoDownload]
    /\ pressed' = [pressed EXCEPT ![s] = NotPressed]
    /\ entry' = [entry EXCEPT ![s] = NoEntry]
    /\ UNCHANGED <<data_file, repvars>>

\* lines 108-115, then the rest of the run: "Save Entry" pressed with f
SaveEntry(s, f) ==
    /\ pc[s] = "loaded"
    /\ Incomplete(f) \/ Len(df[s].rows) < MaxRows
    /\ IF Incomplete(f)
       THEN /\ msgs' = [msgs EXCEPT ![s] = {FillWarning} \cup Section2Info(df[s])]
            /\ UNCHANGED <<data_file, entry>>
       ELSE /\ data_file' = to_csv(Appended(s, f))
            /\ entry' = [entry EXCEPT ![s] = to_csv(new_entry(f)).lines[1]]
            /\ msgs' = [msgs EXCEPT ![s] = {SavedMsg(f)}]
    /\ pressed' = [pressed EXCEPT ![s] =
                     [NotPressed EXCEPT !.button = "save", !.blank = BlankWidgets(f)]]
    /\ pc' = [pc EXCEPT ![s] = "idle"]
    /\ df' = [df EXCEPT ![s] = NoFrame]
    /\ UNCHANGED <<calls, filtered_df, download, loaded_from, repvars>>

----------------------------------------------------------------------------
(* Report section *)

ReportDates == {Date(2024, 1, 30), Date(2024, 1, 31), Date(2024, 2, 1), Date(2024, 2, 2)}

\* the range check left out
StartAfterEndNever(start_date, end_date) == FALSE

\* line 133
StartAfterEnd(start_date, end_date) == ~DateLE(start_date, end_date)

\* line 152
FileName(start_date, end_date) ==
    <<"Report_">> \o strftime(start_date) \o <<"_to_">> \o strftime(end_date) \o <<".pdf">>

\* lines 119-154: "Generate PDF Report" pressed
GenerateReport(s, start_date, end_date, include_chart) ==
    /\ pc[s] = "loaded"
    /\ ~IsEmpty(df[s])
    /\ LET dated == ParseDates(df[s])
           filtered == Filter(dated, start_date, end_date)
           image == IF include_chart THEN create_reason_chart(filtered) ELSE NoImage
           pdf == create_report_pdf(filtered, image)
       IN  IF StartAfterEnd(start_date, end_date)
           THEN /\ msgs' = [msgs EXCEPT ![s] = {RangeError}]
                /\ UNCHANGED <<calls, filtered_df, download>>
           ELSE IF IsEmpty(filtered)
           THEN /\ msgs' = [msgs EXCEPT ![s] = {NoEntriesWarning}]
                /\ filtered_df' = [filtered_df EXCEPT ![s] = filtered]
                /\ UNCHANGED <<calls, download>>
           ELSE /\ msgs' = [msgs EXCEPT ![s] = {GeneratedMsg(Len(filtered.rows))}]
                /\ filtered_df' = [filtered_df EXCEPT ![s] = filtered]
                /\ calls' = [calls EXCEPT ![s] =
                               (IF include_chart THEN {"create_reason_chart"} ELSE {})
                                 \cup {"create_report_pdf"}]
                /\ download' = [download EXCEPT ![s] =
                                  [offered |-> TRUE, data |-> pdf,
                                   file_name |-> FileName(start_date, end_date)]]
    /\ pressed' = [pressed EXCEPT ![s] =
                     [NotPressed EXCEPT !.button = "generate", !.start_date = start_date,
                                        !.end_date = end_date,
                                        !.include_chart = include_chart]]
    /\ pc' = [pc EXCEPT ![s] = "idle"]
    /\ df' = [df EXCEPT ![s] = NoFrame]
    /\ UNCHANGED <<data_file, loaded_from, entry, repvars>>

\* a run that presses neither button; lines 157-161 with the checkbox set or not
View(s, show) ==
    /\ pc[s] = "loaded"
    /\ msgs' = [msgs EXCEPT ![s] =
                  Section2Info(df[s]) \cup (IF show /\ IsEmpty(df[s]) THEN {NoDisplayInfo} ELSE {})]
    /\ pc' = [pc EXCEPT ![s] = "idle"]
    /\ df' = [df EXCEPT ![s] = NoFrame]
    /\ UNCHANGED <<data_file, calls, filtered_df, download, pressed, loaded_from, entry,
                   repvars>>

----------------------------------------------------------------------------
(* create_report_pdf and create_reason_chart called on their own *)

\* a row as the report section holds it: parsed date, inferred cell types
SampleRow(i) ==
    [c \in Range(COLUMNS) |->
       CASE c = "Date" -> Timestamp(20240101 + (i % 28))
         [] c = "Customer Name" -> StrCell(<<"B", "o">>)
         [] c = "Contact Number" -> IF i % 3 = 0 THEN NaN ELSE FloatCell(7000)
         [] c = "Product" -> StrCell(<<"Ring">>)
         [] c = "Weight (grams)" -> FloatCell(1250 * (1 + (i % 4)))
         [] OTHER -> StrCell(IF i % 2 = 0 THEN <<"VA Problem">> ELSE <<"Staff Issue">>)]

Restrict(row, columns) == [c \in Range(columns) |-> row[c]]

\* n rows under the labels a filter leaves (every second label), in the columns given
SampleFrame(n, columns) ==
    [columns |-> columns,
     index |-> [i \in 1..n |-> 2 * i],
     rows |-> [i \in 1..n |-> Restrict(SampleRow(i), columns)]]

NoReasonColumns == SelectSeq(COLUMNS, LAMBDA c : c # "Reason for Feedback")

ReportFrames == {SampleFrame(n, columns) : n \in 0..MaxEntries, columns \in {COLUMNS, NoReasonColumns}}

\* chart_image_buffer = create_reason_chart(report_df)
RenderChart ==
    /\ rpc = "chart"
    /\ chart_image' = create_reason_chart(report_df)
    /\ rpc' = "begin"
    /\ UNCHANGED <<report_df, canvas, idx, appvars>>

\* chart_image stays None
SkipChart ==
    /\ rpc = "chart"
    /\ chart_image' = NoImage
    /\ rpc' = "begin"
    /\ UNCHANGED <<report_df, canvas, idx, appvars>>

\* create_report_pdf, lines 46-65
Begin ==
    /\ rpc = "begin"
    /\ canvas' = BeginReport(chart_image)
    /\ idx' = 1
    /\ rpc' = "loop"
    /\ UNCHANGED <<report_df, chart_image, appvars>>

\* create_report_pdf, lines 67-84: one entry
DrawEntry ==
    /\ rpc = "loop"
    /\ idx <= Len(report_df.rows)
    /\ canvas' = EntryStep(canvas, report_df.index[idx], report_df.rows[idx])
    /\ idx' = idx + 1
    /\ rpc' = IF canvas'.raised THEN "error" ELSE "loop"
    /\ UNCHANGED <<report_df, chart_image, appvars>>

\* create_report_pdf, lines 86-88
Finish ==
    /\ rpc = "loop"
    /\ idx > Len(report_df.rows)
    /\ rpc' = "done"
    /\ UNCHANGED <<report_df, chart_image, canvas, idx, appvars>>

----------------------------------------------------------------------------
(* Specifications *)

InitApp ==
    /\ data_file = NoFile
    /\ pc = [s \in Sessions |-> "idle"]
    /\ df = [s \in Sessions |-> NoFrame]
    /\ msgs = [s \in Sessions |-> {}]
    /\ calls = [s \in Sessions |-> {}]
    /\ filtered_df = [s \in Sessions |-> NoFrame]
    /\ download = [s \in Sessions |-> NoDownload]
    /\ pressed = [s \in Sessions |-> NotPressed]
    /\ loaded_from = [s \in Sessions |-> NoFile]
    /\ entry = [s \in Sessions |-> NoEntry]

InitRep ==
    /\ report_df = NoFrame
    /\ chart_image = NoImage
    /\ canvas = NoCanvas
    /\ idx = 0
    /\ rpc = "idle"

\* one user session working through the page
Init == InitApp /\ InitRep

Next ==
    \/ Rerun(1)
    \/ \E f \in Forms : SaveEntry(1, f)
    \/ \E start_date, end_date \in ReportDates, include_chart \in BOOLEAN :
          GenerateReport(1, start_date, end_date, include_chart)
    \/ \E show \in BOOLEAN : View(1, show)

Spec == Init /\ [][Next]_vars

\* two sessions saving entries side by side
NextRace ==
    \E s \in Sessions :
        \/ Rerun(s)
        \/ \E f \in RaceForms : SaveEntry(s, f)

SpecRace == Init /\ [][NextRace]_vars

\* the report builder on frames of up to MaxEntries rows
InitReport ==
    /\ InitApp
    /\ report_df \in ReportFrames
    /\ chart_image = NoImage
    /\ canvas = NoCanvas
    /\ idx = 0
    /\ rpc = "chart"

NextReport == RenderChart \/ SkipChart \/ Begin \/ DrawEntry \/ Finish

SpecReport == InitReport /\ [][NextReport]_vars

----------------------------------------------------------------------------
(* Properties of the store and the entry form *)

\* C1: a valid entry that the form appends and load_data then reloads comes
\* back, in the last row, with all six fields equal to the submitted values:
\* the date as YYYY-MM-DD text, the weight as text with three decimals.
C1_RoundTrip ==
    entry[1] # NoEntry =>
        LET loaded == load_data(data_file)
            last == loaded.rows[Len(loaded.rows)]
        IN  \A c \in Range(COLUMNS) : last[c] = StrCell(entry[1][c])

\* C2: the store is append-only: a step keeps every persisted row at its
\* position with its six field values, and a write adds exactly one row at
\* the end.
C2_AppendOnly ==
    [][/\ Len(data_file'.lines) >= Len(data_file.lines)
       /\ \A i \in 1..Len(data_file.lines) : data_file'.lines[i] = data_file.lines[i]
       /\ data_file' # data_file => Len(data_file'.lines) = Len(data_file.lines) + 1]_vars

\* C3: a submit with the name, the product or the reason empty shows the
\* warning and leaves the persisted file as it was: nothing appended,
\* nothing rewritten, no success reported.
C3_IncompleteRejected ==
    [][\A s \in Sessions :
          (pc[s] = "loaded" /\ pressed'[s].button = "save" /\ pressed'[s].blank # {})
          => /\ data_file' = data_file
             /\ entry'[s] = NoEntry
             /\ FillWarning \in msgs'[s]
             /\ \A m \in msgs'[s] : m.level # "success"]_vars

C3_Witness ==
    /\ pressed[1].button = "save"
    /\ pressed[1].blank = {"Name"}
    /\ FillWarning \in msgs[1]
    /\ data_file.exists
    /\ data_file = loaded_from[1]

----------------------------------------------------------------------------
(* Properties of the report section *)

\* C4: with start <= end, a stored entry is in the filtered set exactly when
\* start <= its date <= end; the entries dated start or end are in, those
\* dated the day before start or the day after end are out.
C4_FilterInclusive ==
    \A s \in Sessions :
        LET ord(d) == 10000 * d.year + 100 * d.month + d.day
            textOrd(t) == 10000 * DigitsToNat(SubSeq(t, 1, 4))
                            + 100 * DigitsToNat(SubSeq(t, 6, 7))
                            + DigitsToNat(SubSeq(t, 9, 10))
            first == ord(pressed[s].start_date)
            last == ord(pressed[s].end_date)
            stored == loaded_from[s].lines
        IN  (pressed[s].button = "generate" /\ first <= last)
            => \A i \in 1..Len(stored) :
                  LET d == textOrd(stored[i]["Date"])
                      kept == {k \in 1..Len(filtered_df[s].rows) :
                                 filtered_df[s].index[k] = i - 1}
                  IN  /\ Cardinality(kept) = IF first <= d /\ d <= last THEN 1 ELSE 0
                      /\ \A k \in kept : filtered_df[s].rows[k]["Date"].n = d

\* a report for [2024-01-31, 2024-01-31] over a file that holds an entry of
\* that day and one of the day after: the first is in, the second is out
C4_Witness ==
    /\ pressed[1].button = "generate"
    /\ pressed[1].start_date = Date(2024, 1, 31)
    /\ pressed[1].end_date = Date(2024, 1, 31)
    /\ Len(loaded_from[1].lines) = 2
    /\ \E i, j \in 1..2 :
          /\ loaded_from[1].lines[i]["Date"] = strftime(Date(2024, 1, 31))
          /\ loaded_from[1].lines[j]["Date"] = strftime(Date(2024, 2, 1))
          /\ filtered_df[1].index = <<i - 1>>

\* C5: a generate action builds a report only when start <= end and the
\* filtered set is non-empty; with start > end it shows the error, with an
\* empty filtered set the warning, and in both cases calls neither the chart
\* renderer nor the report builder and offers no download.
C5_NoReportOnError ==
    \A s \in Sessions :
        LET ord(d) == 10000 * d.year + 100 * d.month + d.day
            textOrd(t) == 10000 * DigitsToNat(SubSeq(t, 1, 4))
                            + 100 * DigitsToNat(SubSeq(t, 6, 7))
                            + DigitsToNat(SubSeq(t, 9, 10))
            first == ord(pressed[s].start_date)
            last == ord(pressed[s].end_date)
            stored == loaded_from[s].lines
            inside == {i \in 1..Len(stored) :
                         first <= textOrd(stored[i]["Date"]) /\ textOrd(stored[i]["Date"]) <= last}
            nothing == calls[s] = {} /\ download[s] = NoDownload
        IN  pressed[s].button = "generate"
            => /\ first > last => msgs[s] = {RangeError} /\ nothing
               /\ (first <= last /\ inside = {}) => msgs[s] = {NoEntriesWarning} /\ nothing
               /\ (first <= last /\ inside # {})
                    => /\ download[s].offered
                       /\ "create_report_pdf" \in calls[s]
                       /\ ~download[s].data.raised

C5_Witness ==
    /\ pressed[1].button = "generate"
    /\ msgs[1] = {RangeError}
    /\ loaded_from[1].exists
    /\ calls[1] = {}
    /\ ~download[1].offered

----------------------------------------------------------------------------
(* Properties of create_report_pdf *)

\* C6: no entry text line and no divider is drawn below the 1.5 inch bottom
\* margin, for any number of entries, with or without the chart.
C6_BottomMargin ==
    \A i \in 1..Len(canvas.ops) :
        canvas.ops[i].part \in {"line1", "line2", "divider"}
        => canvas.ops[i].y >= (15 * inch) \div 10

\* C6 as amended: the first line of every entry is drawn at or above the
\* 1.5 inch mark; its second line and its divider follow 0.2 and 0.3 inch
\* lower, so nothing is drawn below 1.2 inch.
C6_BlockStartsAboveMargin ==
    \A i \in 1..Len(canvas.ops) :
        /\ canvas.ops[i].part = "line1" => canvas.ops[i].y >= (15 * inch) \div 10
        /\ canvas.ops[i].part = "line2"
             => canvas.ops[i].y >= (15 * inch) \div 10 - (20 * inch) \div 100
        /\ canvas.ops[i].part = "divider"
             => canvas.ops[i].y >= (15 * inch) \div 10 - (30 * inch) \div 100

\* the sixteenth entry of a page without chart starts exactly at 1.5 inch
C6_Witness ==
    /\ rpc = "done"
    /\ \E i \in 1..Len(canvas.ops) :
          /\ canvas.ops[i].part = "divider"
          /\ canvas.ops[i].y = (12 * inch) \div 10

\* C7: no entry's block is split across pages: its two text lines and its
\* divider are drawn on one page.
C7_BlockOnOnePage ==
    /\ \A i, j \in 1..Len(canvas.ops) :
          (canvas.ops[i].row >= 0 /\ canvas.ops[i].row = canvas.ops[j].row)
          => canvas.ops[i].page = canvas.ops[j].page
    /\ rpc = "done"
         => \A k \in 1..Len(report_df.rows) :
               \E i \in 1..Len(canvas.ops) :
                  /\ i + 2 <= Len(canvas.ops)
                  /\ canvas.ops[i].part = "line1"
                  /\ canvas.ops[i + 1].part = "line2"
                  /\ canvas.ops[i + 2].part = "divider"
                  /\ \A d \in 0..2 : canvas.ops[i + d].row = report_df.index[k]

C7_Witness ==
    /\ rpc = "done"
    /\ canvas.page >= 1
    /\ Len(report_df.rows) = MaxEntries

\* C8: when the entries' blocks, drawn one under the other from the first
\* entry position, would run off the page, the report has more than one
\* page; and every page after the first starts with the "Detailed Entries
\* (Continued)" header at the top margin, before any entry of that page.
C8_ContinuedPages ==
    /\ rpc = "done"
         => LET block == (20 * inch) \div 100 + (10 * inch) \div 100 + (25 * inch) \div 100
                n == Len(report_df.rows)
                top == (CHOOSE i \in 1..Len(canvas.ops) : canvas.ops[i].part = "header")
                y0 == canvas.ops[top].y - (25 * inch) \div 100
            IN  (n > 0 /\ y0 - (n - 1) * block - (30 * inch) \div 100 < 0) => canvas.page >= 1
    /\ \A p \in 1..canvas.page :
          \E i \in 1..Len(canvas.ops) :
             /\ canvas.ops[i].page = p
             /\ \A j \in 1..(i - 1) : canvas.ops[j].page < p
             /\ canvas.ops[i].part = "continued"
             /\ canvas.ops[i].y = 10 * inch
             /\ canvas.ops[i].text = <<"Detailed Entries (Continued)">>

C8_Witness ==
    /\ rpc = "done"
    /\ canvas.page = 2
    /\ chart_image # NoImage

----------------------------------------------------------------------------
(* Property of two sessions *)

\* C10: concurrent writers can lose updates: when two sessions have both
\* loaded the same file and then both saved an entry, each reporting
\* success, the file holds that content plus one row only, the entry of the
\* session that wrote last; the other session's entry is not in it.
C10_LastWriterWins ==
    \A s, t \in Sessions :
        (s # t /\ pc[s] = "idle" /\ pc[t] = "idle"
           /\ entry[s] # NoEntry /\ entry[t] # NoEntry
           /\ loaded_from[s] = loaded_from[t])
        => /\ \E m \in msgs[s] : m.level = "success"
           /\ \E m \in msgs[t] : m.level = "success"
           /\ Len(data_file.lines) = Len(loaded_from[s].lines) + 1
           /\ data_file.lines[Len(data_file.lines)] \in {entry[s], entry[t]}

\* both saved, from the same load, different entries: the first one is gone
C10_Witness ==
    /\ pc[1] = "idle" /\ pc[2] = "idle"
    /\ entry[1] # NoEntry /\ entry[2] # NoEntry /\ entry[1] # entry[2]
    /\ loaded_from[1] = loaded_from[2]
    /\ \E m \in msgs[1] : m.level = "success"
    /\ \E m \in msgs[2] : m.level = "success"
    /\ data_file.lines[Len(data_file.lines)] = entry[2]
    /\ \A i \in 1..Len(data_file.lines) : data_file.lines[i] # entry[1]

====
